---- MODULE Spec2Model ----
(***************************************************************************)
(* Book Tracker API (src/index.js): an in-memory registry of books behind  *)
(* seven Express routes.  Requests are dispatched to the first registered  *)
(* route whose method and path pattern match; each handler runs to         *)
(* completion on the registry before the next request is taken.            *)
(***************************************************************************)
EXTENDS Integers, Sequences, FiniteSets, TLC

VARIABLES
  books,   \* the registry: let books = [...]
  issued,  \* history: every id a book has ever had
  req,     \* the request being answered
  res,     \* the response to it
  pc       \* "idle" between requests, "responded" once the handler has answered

vars == <<books, issued, req, res, pc>>

(* ------------------------------ bounds --------------------------------- *)
MaxId == 4

(* ------------------------- JavaScript values --------------------------- *)
\* Text is a sequence of one-character strings, so that toLowerCase,
\* includes and parseInt work on the characters.
Undefined == [t |-> "undefined"]
Str(s) == [t |-> "string", v |-> s]
Num(n) == [t |-> "number", v |-> n]
Bool(b) == [t |-> "boolean", v |-> b]
NaN == [t |-> "NaN"]

\* typeof x
TypeOf(x) == IF x.t = "NaN" THEN "number" ELSE x.t

\* x === true
StrictEqTrue(x) == x.t = "boolean" /\ x.v

\* JavaScript truthiness: !x is the negation of this
Truthy(x) ==
  CASE x.t = "undefined" -> FALSE
    [] x.t = "NaN" -> FALSE
    [] x.t = "string" -> Len(x.v) > 0
    [] x.t = "number" -> x.v # 0
    [] x.t = "boolean" -> x.v

\* year <= 1900: undefined converts to NaN and every comparison with NaN is false
LeqNum(x, n) ==
  CASE x.t = "number" -> x.v <= n
    [] x.t = "boolean" -> (IF x.v THEN 1 ELSE 0) <= n
    [] x.t = "string" /\ Len(x.v) = 0 -> 0 <= n
    [] OTHER -> FALSE

UpperChars == <<"A","B","C","D","E","F","G","H","I","J","K","L","M",
                "N","O","P","Q","R","S","T","U","V","W","X","Y","Z">>
LowerChars == <<"a","b","c","d","e","f","g","h","i","j","k","l","m",
                "n","o","p","q","r","s","t","u","v","w","x","y","z">>

ToLowerChar(c) ==
  IF \E i \in 1..26 : UpperChars[i] = c
    THEN LowerChars[CHOOSE i \in 1..26 : UpperChars[i] = c]
    ELSE c

\* String.prototype.toLowerCase
ToLowerCase(s) == [i \in 1..Len(s) |-> ToLowerChar(s[i])]

\* String.prototype.includes: the term occurs as a contiguous substring
Includes(s, term) ==
  \E k \in 0..(Len(s) - Len(term)) : SubSeq(s, k + 1, k + Len(term)) = term

DigitChars == <<"0","1","2","3","4","5","6","7","8","9">>
IsDigit(c) == \E d \in 1..10 : DigitChars[d] = c
DigitVal(c) == (CHOOSE d \in 1..10 : DigitChars[d] = c) - 1
IsSpace(c) == c = " "

RECURSIVE DigitsValue(_, _, _)
\* value of the longest run of digits of s starting at position i
DigitsValue(s, i, acc) ==
  IF i <= Len(s) /\ IsDigit(s[i])
    THEN DigitsValue(s, i + 1, acc * 10 + DigitVal(s[i]))
    ELSE acc

RECURSIVE SkipSpaces(_, _)
SkipSpaces(s, i) ==
  IF i <= Len(s) /\ IsSpace(s[i]) THEN SkipSpaces(s, i + 1) ELSE i

\* parseInt(text): leading blanks, an optional sign, then the longest run of
\* decimal digits; NaN when no digit follows
ParseInt(s) ==
  LET i == SkipSpaces(s, 1)
      neg == i <= Len(s) /\ s[i] = "-"
      j == IF i <= Len(s) /\ (s[i] = "-" \/ s[i] = "+") THEN i + 1 ELSE i
  IN IF j <= Len(s) /\ IsDigit(s[j])
       THEN Num(IF neg THEN 0 - DigitsValue(s, j, 0) ELSE DigitsValue(s, j, 0))
       ELSE NaN

\* b.id === id, with b.id a number: never true of NaN
StrictEqId(bid, parsed) == parsed.t = "number" /\ parsed.v = bid

RECURSIVE IntToText(_)
\* decimal text of a natural number, as it appears in a URL
IntToText(n) ==
  IF n < 10 THEN <<DigitChars[n + 1]>>
  ELSE Append(IntToText(n \div 10), DigitChars[(n % 10) + 1])

(* ------------------------------- seed ---------------------------------- *)
\* dates as yyyymmdd numbers
SeedDate1 == 20250115
SeedDate2 == 20240220

Title1 == <<"T","h","e"," ","B","e","g","i","n","i","n","g"," ",
            "A","f","t","e","r"," ","T","h","e"," ","E","n","d">>
Title2 == <<"C","l","e","a","n"," ","C","o","d","e">>
Title3 == <<"S","a","g","a"," ","o","f"," ","T","a","n","y","a"," ",
            "t","h","e"," ","E","v","i","l">>
Author1 == <<"J","a","m","e","s"," ","V","l","a","d","i","m","i","r">>
Author2 == <<"K","h","i","n","e"," ","A","k","i","r","a">>
Author3 == <<"S","a","o","r","i"," ","M","e","t","s","u","b","a","y","a","s","h","i">>

\* let books = [...]: id and createdAt are numbers set by the server, the
\* other fields hold whatever JavaScript value was stored
SeedBooks ==
  << [id |-> 1, title |-> Str(Title1), author |-> Str(Author1),
      year |-> Num(2018), completed |-> Bool(FALSE), createdAt |-> SeedDate1],
     [id |-> 2, title |-> Str(Title2), author |-> Str(Author2),
      year |-> Num(2008), completed |-> Bool(TRUE), createdAt |-> SeedDate2],
     [id |-> 3, title |-> Str(Title3), author |-> Str(Author3),
      year |-> Num(2008), completed |-> Bool(TRUE), createdAt |-> SeedDate2] >>

(* ------------------------------ requests ------------------------------- *)
BooksSeg == <<"b","o","o","k","s">>
CompletedSeg == <<"c","o","m","p","l","e","t","e","d">>
SearchSeg == <<"s","e","a","r","c","h">>

EmptyBody ==
  [title |-> Undefined, author |-> Undefined, year |-> Undefined,
   completed |-> Undefined]
EmptyQuery == [title |-> Undefined]

\* no request is being handled
NoRequest == [method |-> "", path |-> <<>>, query |-> EmptyQuery,
              body |-> EmptyBody, now |-> 0]
NoResponse == [status |-> 0, success |-> FALSE, message |-> "",
               kind |-> "none", data |-> <<>>]

MkRequest(m, p, q, b, n) ==
  [method |-> m, path |-> p, query |-> q, body |-> b, now |-> n]

(* ------------------------------ responses ------------------------------ *)
MsgNotFound == "Book not found"
MsgRequired == "All fields (title, author, year) are required"
MsgYear == "Year must be greater than 1900"
MsgUpdated == "Book updated successfully"
MsgDeleted == "Book deleted successfully"
MsgTitleRequired == "Title query parameter is required"

\* res.status(s).json({success, message, data}); message "" and kind "none"
\* stand for an absent key, kind "book" for a single book in data[1]
Json(s, ok, msg, k, d) ==
  [status |-> s, success |-> ok, message |-> msg, kind |-> k, data |-> d]

Out(bks, r) == [books |-> bks, res |-> r]

(* ------------------------------ handlers ------------------------------- *)
\* books.findIndex(b => b.id === id): 0 stands for -1
FindIndex(bks, id) ==
  IF \E i \in 1..Len(bks) : StrictEqId(bks[i].id, id)
    THEN CHOOSE i \in 1..Len(bks) :
           /\ StrictEqId(bks[i].id, id)
           /\ \A j \in 1..(i - 1) : ~StrictEqId(bks[j].id, id)
    ELSE 0

\* Math.max(...books.map(b => b.id))
MaxBookId(bks) ==
  CHOOSE m \in {bks[i].id : i \in 1..Len(bks)} :
    \A i \in 1..Len(bks) : bks[i].id <= m

\* variant: books.splice(bookIndex), which removes to the end
Splice_ToEnd(bks, k) == SubSeq(bks, 1, k - 1)

\* books.splice(bookIndex, 1)
Splice(bks, k) == SubSeq(bks, 1, k - 1) \o SubSeq(bks, k + 1, Len(bks))

\* 1. GET /books
GetBooksHandler(bks, r) == Out(bks, Json(200, TRUE, "", "list", bks))

\* 2. GET /books/:id
GetBookByIdHandler(bks, r) ==
  LET id == ParseInt(r.path[2])
      k == FindIndex(bks, id)
  IN IF k = 0
       THEN Out(bks, Json(404, FALSE, MsgNotFound, "none", <<>>))
       ELSE Out(bks, Json(200, TRUE, "", "book", <<bks[k]>>))

\* variant: the id is the number of books plus one
NewId_Length(bks) == Len(bks) + 1

\* variant: the id is the smallest positive number no book has
NewId_LowestFree(bks) ==
  CHOOSE n \in 1..(Len(bks) + 1) :
    /\ \A i \in 1..Len(bks) : bks[i].id # n
    /\ \A m \in 1..(n - 1) : \E i \in 1..Len(bks) : bks[i].id = m

\* const newId = books.length > 0 ? Math.max(...) + 1 : 1
NewId(bks) == IF Len(bks) > 0 THEN MaxBookId(bks) + 1 ELSE 1

\* variant: the author is not checked
PostMissing_NoAuthor(title, author, year) == ~Truthy(title) \/ ~Truthy(year)

\* !title || !author || !year
PostMissing(title, author, year) ==
  ~Truthy(title) \/ ~Truthy(author) \/ ~Truthy(year)

\* variant: year < 1900
PostYearInvalid_Lt(year) == LeqNum(year, 1899)

\* year <= 1900
PostYearInvalid(year) == LeqNum(year, 1900)

\* variant: books.unshift(newBook)
Push_Front(bks, b) == <<b>> \o bks

\* books.push(newBook)
Push(bks, b) == Append(bks, b)

\* 3. POST /books
PostBooksHandler(bks, r) ==
  LET title == r.body.title
      author == r.body.author
      year == r.body.year
      newBook == [id |-> NewId(bks), title |-> title, author |-> author,
                  year |-> year, completed |-> Bool(FALSE),
                  createdAt |-> r.now]
  IN IF PostMissing(title, author, year)
       THEN Out(bks, Json(400, FALSE, MsgRequired, "none", <<>>))
     ELSE IF PostYearInvalid(year)
       THEN Out(bks, Json(400, FALSE, MsgYear, "none", <<>>))
     ELSE Out(Push(bks, newBook), Json(201, TRUE, "", "book", <<newBook>>))

\* variant: completed is assigned only when it is truthy
UpdatedBook_TruthyCompleted(b, body) ==
  [b EXCEPT
     !.title = IF Truthy(body.title) THEN body.title ELSE @,
     !.author = IF Truthy(body.author) THEN body.author ELSE @,
     !.year = IF Truthy(body.year) THEN body.year ELSE @,
     !.completed = IF Truthy(body.completed) THEN body.completed ELSE @]

\* variant: title is assigned whenever it is present
UpdatedBook_PresentTitle(b, body) ==
  [b EXCEPT
     !.title = IF TypeOf(body.title) # "undefined" THEN body.title ELSE @,
     !.author = IF Truthy(body.author) THEN body.author ELSE @,
     !.year = IF Truthy(body.year) THEN body.year ELSE @,
     !.completed = IF TypeOf(body.completed) # "undefined"
                    THEN body.completed ELSE @]

\* the assignments of the update handler to books[bookIndex]
UpdatedBook(b, body) ==
  [b EXCEPT
     !.title = IF Truthy(body.title) THEN body.title ELSE @,
     !.author = IF Truthy(body.author) THEN body.author ELSE @,
     !.year = IF Truthy(body.year) THEN body.year ELSE @,
     !.completed = IF TypeOf(body.completed) # "undefined"
                    THEN body.completed ELSE @]

\* year && year <= 1900
PutYearInvalid(year) == Truthy(year) /\ LeqNum(year, 1900)

\* 4. PUT /books/:id
PutBookHandler(bks, r) ==
  LET id == ParseInt(r.path[2])
      bookIndex == FindIndex(bks, id)
      year == r.body.year
  IN IF bookIndex = 0
       THEN Out(bks, Json(404, FALSE, MsgNotFound, "none", <<>>))
     ELSE IF PutYearInvalid(year)
       THEN Out(bks, Json(400, FALSE, MsgYear, "none", <<>>))
     ELSE LET nb == UpdatedBook(bks[bookIndex], r.body)
          IN Out([bks EXCEPT ![bookIndex] = nb],
                 Json(200, TRUE, MsgUpdated, "book", <<nb>>))

\* 5. DELETE /books/:id
DeleteBookHandler(bks, r) ==
  LET id == ParseInt(r.path[2])
      bookIndex == FindIndex(bks, id)
  IN IF bookIndex = 0
       THEN Out(bks, Json(404, FALSE, MsgNotFound, "none", <<>>))
       ELSE Out(Splice(bks, bookIndex),
                Json(200, TRUE, MsgDeleted, "none", <<>>))

\* books.filter(book => book.completed === true)
CompletedBooks(bks) == SelectSeq(bks, LAMBDA b : StrictEqTrue(b.completed))

\* 6. GET /books/completed
GetCompletedHandler(bks, r) ==
  Out(bks, Json(200, TRUE, "", "list", CompletedBooks(bks)))

\* books.filter(book => book.title.toLowerCase().includes(searchTerm))
MatchingBooks(bks, searchTerm) ==
  SelectSeq(bks, LAMBDA b : Includes(ToLowerCase(b.title.v), searchTerm))

\* 7. GET /books/search
SearchHandler(bks, r) ==
  LET title == r.query.title
  IN IF ~Truthy(title)
       THEN Out(bks, Json(400, FALSE, MsgTitleRequired, "none", <<>>))
       ELSE Out(bks, Json(200, TRUE, "", "list",
                          MatchingBooks(bks, ToLowerCase(title.v))))

(* ------------------------------- router -------------------------------- *)
Lit(s) == [param |-> FALSE, text |-> s]
Param == [param |-> TRUE, text |-> <<>>]

\* the routes in the order of their registration with app.get/post/put/delete
Routes ==
  << [method |-> "GET", pattern |-> <<Lit(BooksSeg)>>],
     [method |-> "GET", pattern |-> <<Lit(BooksSeg), Param>>],
     [method |-> "POST", pattern |-> <<Lit(BooksSeg)>>],
     [method |-> "PUT", pattern |-> <<Lit(BooksSeg), Param>>],
     [method |-> "DELETE", pattern |-> <<Lit(BooksSeg), Param>>],
     [method |-> "GET", pattern |-> <<Lit(BooksSeg), Lit(CompletedSeg)>>],
     [method |-> "GET", pattern |-> <<Lit(BooksSeg), Lit(SearchSeg)>>] >>

\* a route matches a request of its method whose path has the pattern's
\* segments; a parameter matches any non-empty segment
Matches(route, r) ==
  /\ route.method = r.method
  /\ Len(route.pattern) = Len(r.path)
  /\ \A i \in 1..Len(r.path) :
       IF route.pattern[i].param THEN Len(r.path[i]) > 0
       ELSE route.pattern[i].text = r.path[i]

\* Express runs the first registered route that matches (no handler here
\* calls next()); 0 when none matches
Dispatch(r) ==
  IF \E k \in 1..Len(Routes) : Matches(Routes[k], r)
    THEN CHOOSE k \in 1..Len(Routes) :
           /\ Matches(Routes[k], r)
           /\ \A j \in 1..(k - 1) : ~Matches(Routes[j], r)
    ELSE 0

\* what the server does with a request on registry bks
Handle(bks, r) ==
  LET k == Dispatch(r)
  IN CASE k = 1 -> GetBooksHandler(bks, r)
       [] k = 2 -> GetBookByIdHandler(bks, r)
       [] k = 3 -> PostBooksHandler(bks, r)
       [] k = 4 -> PutBookHandler(bks, r)
       [] k = 5 -> DeleteBookHandler(bks, r)
       [] k = 6 -> GetCompletedHandler(bks, r)
       [] k = 7 -> SearchHandler(bks, r)
       [] OTHER -> Out(bks, Json(404, FALSE, "", "none", <<>>))

(* ------------------------------- inputs -------------------------------- *)
TX == Str(<<"X">>)
AY == Str(<<"Y">>)
Blank == Str(<<>>)

Body(t, a, y, c) == [title |-> t, author |-> a, year |-> y, completed |-> c]

\* every JSON body over these field values: the handlers are examined on all
\* of them in every registry state the server reaches
TitleValues == {Undefined, Blank, TX}
AuthorValues == {Undefined, Blank, AY}
YearValues == {Undefined, Num(0), Num(-1), Num(1900), Num(1901)}
CompletedValues == {Undefined, Bool(FALSE), Bool(TRUE)}

PostBodies ==
  {Body(t, a, y, Undefined) :
     t \in TitleValues, a \in AuthorValues, y \in YearValues}
PutBodies ==
  [title : TitleValues, author : AuthorValues, year : YearValues,
   completed : CompletedValues]

\* the bodies that clients send in the explored runs
SentPostBodies ==
  { EmptyBody,
    Body(TX, AY, Undefined, Undefined),
    Body(TX, Blank, Num(1901), Undefined),
    Body(Blank, AY, Num(1901), Undefined),
    Body(Undefined, Undefined, Num(1900), Undefined),
    Body(TX, AY, Num(0), Undefined),
    Body(TX, AY, Num(1900), Undefined),
    Body(TX, AY, Num(1901), Undefined) }
SentPutBodies ==
  { EmptyBody,
    Body(Undefined, Undefined, Undefined, Bool(FALSE)),
    Body(Blank, Blank, Num(0), Undefined),
    Body(TX, AY, Num(1901), Undefined),
    Body(TX, AY, Num(1900), Bool(TRUE)) }

\* the last path segment of /books/<segment>: the decimal text of an id, text
\* that starts with a digit, and text that holds no number
IdSegs == {IntToText(i) : i \in 1..MaxId} \cup {<<"2","x">>, <<"a","b","c">>}

SearchTerms == {Undefined, Blank, Str(<<"c","l","e","a","n">>),
                Str(<<"z","z">>)}

\* new Date() at the time of a request: a day after the seed dates
Times == {SeedDate1 + 1}

GetRequest(seg) ==
  MkRequest("GET", <<BooksSeg, seg>>, EmptyQuery, EmptyBody, 0)
PostRequest(b, n) == MkRequest("POST", <<BooksSeg>>, EmptyQuery, b, n)
PutRequest(seg, b) == MkRequest("PUT", <<BooksSeg, seg>>, EmptyQuery, b, 0)
DeleteRequest(seg) ==
  MkRequest("DELETE", <<BooksSeg, seg>>, EmptyQuery, EmptyBody, 0)
ListRequest == MkRequest("GET", <<BooksSeg>>, EmptyQuery, EmptyBody, 0)
CompletedRequest == GetRequest(CompletedSeg)
SearchRequest(q) ==
  MkRequest("GET", <<BooksSeg, SearchSeg>>, [title |-> q], EmptyBody, 0)

(* ------------------------------- actions ------------------------------- *)
Ids(bks) == {bks[i].id : i \in 1..Len(bks)}

Init ==
  /\ books = SeedBooks
  /\ issued = Ids(SeedBooks)
  /\ req = NoRequest
  /\ res = NoResponse
  /\ pc = "idle"

\* the handler of the first matching route runs to completion on request r
\* and answers; ids are capped at MaxId
Answer(r) ==
  LET out == Handle(books, r)
  IN /\ \A i \in 1..Len(out.books) : out.books[i].id <= MaxId
     /\ books' = out.books
     /\ issued' = issued \cup Ids(out.books)
     /\ res' = out.res
     /\ req' = r
     /\ pc' = "responded"

\* GET /books
ListAll ==
  /\ pc = "idle"
  /\ Answer(ListRequest)

\* GET /books/<seg>
GetById ==
  /\ pc = "idle"
  /\ \E seg \in IdSegs : Answer(GetRequest(seg))

\* POST /books with a JSON body
Create ==
  /\ pc = "idle"
  /\ \E b \in SentPostBodies, n \in Times : Answer(PostRequest(b, n))

\* PUT /books/<seg> with a JSON body
Update ==
  /\ pc = "idle"
  /\ \E seg \in IdSegs, b \in SentPutBodies : Answer(PutRequest(seg, b))

\* DELETE /books/<seg>
Delete ==
  /\ pc = "idle"
  /\ \E seg \in IdSegs : Answer(DeleteRequest(seg))

\* GET /books/completed
ListCompleted ==
  /\ pc = "idle"
  /\ Answer(CompletedRequest)

\* GET /books/search?title=<term>
Search ==
  /\ pc = "idle"
  /\ \E q \in SearchTerms : Answer(SearchRequest(q))

\* the response has been sent; the server waits for the next request
Done ==
  /\ pc = "responded"
  /\ pc' = "idle"
  /\ req' = NoRequest
  /\ res' = NoResponse
  /\ UNCHANGED <<books, issued>>

Next ==
  \/ ListAll
  \/ GetById
  \/ Create
  \/ Update
  \/ Delete
  \/ ListCompleted
  \/ Search
  \/ Done

Spec == Init /\ [][Next]_vars

(* ----------------------------- properties ------------------------------ *)
Idle == pc = "idle"
Responded == pc = "responded"

\* the sequence of ids of a sequence of books
IdSeq(bks) == [i \in 1..Len(bks) |-> bks[i].id]

\* a body that the create handler must accept
ValidPost(b) ==
  /\ b.title = TX
  /\ b.author = AY
  /\ b.year = Num(1901)

\* a field value that counts as missing
Falsy(v) == v \in {Undefined, Blank, Num(0)}

\* C1: in every reachable state all book ids in the registry are positive
\* integers and no two books share an id.
C1_IdsUniquePositive ==
  /\ \A i \in 1..Len(books) : books[i].id \in Nat /\ books[i].id > 0
  /\ \A i, j \in 1..Len(books) : i # j => books[i].id # books[j].id

\* a book was created after another one had been deleted
C1_Witness ==
  /\ Responded
  /\ req.method = "POST"
  /\ res.status = 201
  /\ Len(books) < Cardinality(issued)

\* C2: in every registry state a create request that passes validation
\* answers 201 and appends exactly one book, with id max + 1 (1 in the empty
\* registry) and completed false, leaving the books before it as they were.
C2_CreateAppends ==
  Idle =>
    \A b \in PostBodies, n \in Times :
      ValidPost(b) =>
        LET out == Handle(books, PostRequest(b, n))
            new == out.books[Len(out.books)]
        IN /\ out.res.status = 201
           /\ out.res.success
           /\ Len(out.books) = Len(books) + 1
           /\ SubSeq(out.books, 1, Len(books)) = books
           /\ out.res.data = <<new>>
           /\ new.completed = Bool(FALSE)
           /\ new.title = b.title /\ new.author = b.author
           /\ new.year = b.year /\ new.createdAt = n
           /\ \A i \in 1..Len(books) : books[i].id < new.id
           /\ IF Len(books) = 0 THEN new.id = 1
              ELSE \E i \in 1..Len(books) : books[i].id + 1 = new.id

\* a book was created in the registry emptied by deletes, and got id 1
C2_Witness ==
  /\ Responded
  /\ req.method = "POST"
  /\ res.status = 201
  /\ res.data[1].id = 1
  /\ IdSeq(books) = <<1>>

\* C5: a create request fails with 400 and the required-fields message when
\* title, author or year is missing or falsy, otherwise with 400 and the year
\* message when year <= 1900; year 1901 with title and author succeeds; a
\* failed create leaves the registry unchanged.
C5_CreateValidation ==
  Idle =>
    \A b \in PostBodies, n \in Times :
      LET out == Handle(books, PostRequest(b, n))
          missing == Falsy(b.title) \/ Falsy(b.author) \/ Falsy(b.year)
      IN /\ missing =>
              /\ out.res.status = 400
              /\ out.res.message = MsgRequired
         /\ (~missing /\ b.year.v <= 1900) =>
              /\ out.res.status = 400
              /\ out.res.message = MsgYear
         /\ (~missing /\ b.year = Num(1901)) => out.res.status = 201
         /\ out.res.status # 201 => (out.books = books /\ ~out.res.success)

\* a create with title and author was refused for its year
C5_Witness ==
  /\ Responded
  /\ req.method = "POST"
  /\ req.body.title = TX /\ req.body.author = AY
  /\ req.body.year = Num(1900)
  /\ res.status = 400
  /\ res.message = MsgYear

\* C10: in every reachable state every book has a year above 1900, a
\* non-empty title and a non-empty author.
C10_BooksWellFormed ==
  \A i \in 1..Len(books) :
    /\ books[i].year.t = "number" /\ books[i].year.v > 1900
    /\ books[i].title.t = "string" /\ Len(books[i].title.v) > 0
    /\ books[i].author.t = "string" /\ Len(books[i].author.v) > 0

\* an update with empty title and author and year 0 was accepted
C10_Witness ==
  /\ Responded
  /\ req.method = "PUT"
  /\ req.body = Body(Blank, Blank, Num(0), Undefined)
  /\ res.status = 200

C4_SearchAnswered ==
  (Responded /\ req.method = "GET" /\ req.path = <<BooksSeg, SearchSeg>>) =>
    IF req.query.title \in {Undefined, Blank}
      THEN res.status = 400 /\ res.message = MsgTitleRequired
      ELSE /\ res.status = 200
           /\ res.success
           /\ res.data =
                SelectSeq(books, LAMBDA b :
                  Includes(ToLowerCase(b.title.v),
                           ToLowerCase(req.query.title.v)))

\* the book that an accepted update with body b makes of book old
C9_Expected(old, b) ==
  [id |-> old.id,
   title |-> IF b.title = TX THEN TX ELSE old.title,
   author |-> IF b.author = AY THEN AY ELSE old.author,
   year |-> IF b.year = Num(1901) THEN b.year ELSE old.year,
   completed |-> IF b.completed \in {Bool(FALSE), Bool(TRUE)}
                   THEN b.completed ELSE old.completed,
   createdAt |-> old.createdAt]

\* C6: an update of an existing book with only completed = false changes
\* only that book's completed field, and no update with any payload changes
\* the id or createdAt of any book, or the number or order of the books.
C6_UpdateFrame ==
  Idle =>
    \A seg \in IdSegs, b \in PutBodies :
      LET out == Handle(books, PutRequest(seg, b))
      IN /\ Len(out.books) = Len(books)
         /\ \A i \in 1..Len(books) :
              /\ out.books[i].id = books[i].id
              /\ out.books[i].createdAt = books[i].createdAt
         /\ \A k \in 1..Len(books) :
              (seg = IntToText(books[k].id)
                 /\ b = Body(Undefined, Undefined, Undefined, Bool(FALSE))) =>
                /\ out.res.status = 200
                /\ out.books =
                     [books EXCEPT ![k] = [@ EXCEPT !.completed = Bool(FALSE)]]

\* the completed seed book 2 was updated with only completed = false
C6_Witness ==
  /\ Responded
  /\ req = PutRequest(<<"2">>, Body(Undefined, Undefined, Undefined, Bool(FALSE)))
  /\ res.status = 200
  /\ res.data = <<[SeedBooks[2] EXCEPT !.completed = Bool(FALSE)]>>
  /\ \E k \in 1..Len(books) : books[k] = res.data[1]

\* C7: a delete of an id in the registry answers 200 and removes exactly
\* that book, keeping the others unchanged and in order; GET /books/:id for
\* the id then answers 404.  From the seed state, a create and DELETE /books/2
\* leave GET /books with the ids 1, 3, 4 in that order.
C7_DeleteRemovesOne ==
  Idle =>
    /\ \A k \in 1..Len(books) :
         LET seg == IntToText(books[k].id)
             out == Handle(books, DeleteRequest(seg))
         IN /\ out.res.status = 200
            /\ out.res.success
            /\ Len(out.books) = Len(books) - 1
            /\ out.books = SubSeq(books, 1, k - 1) \o
                             SubSeq(books, k + 1, Len(books))
            /\ Handle(out.books, GetRequest(seg)).res.status = 404
    /\ books = SeedBooks =>
         \A n \in Times :
           LET s1 == Handle(books,
                            PostRequest(Body(TX, AY, Num(2000), Undefined), n))
               s2 == Handle(s1.books, DeleteRequest(<<"2">>))
               s3 == Handle(s2.books, GetRequest(<<"2">>))
               s4 == Handle(s3.books, ListRequest)
           IN /\ s1.res.status = 201
              /\ s1.res.data[1].id = 4
              /\ s2.res.status = 200
              /\ s3.res.status = 404
              /\ s4.res.status = 200
              /\ IdSeq(s4.res.data) = <<1, 3, 4>>

\* DELETE /books/2 was answered after a create from the seed state
C7_Witness ==
  /\ Responded
  /\ req = DeleteRequest(<<"2">>)
  /\ res.status = 200
  /\ res.message = MsgDeleted
  /\ IdSeq(books) = <<1, 3, 4>>

\* a step in which a create request is answered with 201
CreatedStep ==
  /\ pc = "idle"
  /\ pc' = "responded"
  /\ req'.method = "POST"
  /\ res'.status = 201

\* C8 as stated: once a book with id k has been deleted, no later create
\* assigns id k to a new book.
C8_NeverReused ==
  [][CreatedStep => res'.data[1].id \notin (issued \ Ids(books))]_vars

\* C8 amended: a create never assigns the id k of a deleted book while the
\* registry holds a book with an id greater than k.
C8_NoGapRefilled ==
  [][CreatedStep =>
       \A k \in issued \ Ids(books) :
         (\E i \in 1..Len(books) : books[i].id > k) => res'.data[1].id # k]_vars

\* a book was created while a smaller id of a deleted book stayed unused
C8_Witness ==
  /\ Responded
  /\ req.method = "POST"
  /\ res.status = 201
  /\ \E k \in issued \ Ids(books) : k < res.data[1].id

\* C9: an update answers 404 when no book has the id, before any validation
\* of the payload, and otherwise 400 with the year message when year is truthy
\* and <= 1900; both leave the registry unchanged.  An accepted update
\* overwrites title, author and year only when the supplied value is truthy,
\* and completed whenever it is present.
C9_UpdateOutcome ==
  Idle =>
    \A seg \in IdSegs, b \in PutBodies :
      LET out == Handle(books, PutRequest(seg, b))
          id == ParseInt(seg)
          hits == {k \in 1..Len(books) : id = Num(books[k].id)}
          badYear == b.year \in {Num(-1), Num(1900)}
      IN /\ hits = {} =>
              /\ out.res.status = 404
              /\ out.res.message = MsgNotFound
              /\ out.books = books
         /\ (hits # {} /\ badYear) =>
              /\ out.res.status = 400
              /\ out.res.message = MsgYear
              /\ out.books = books
         /\ (hits # {} /\ ~badYear) =>
              \A k \in hits :
                /\ out.res.status = 200
                /\ out.res.data = <<C9_Expected(books[k], b)>>
                /\ out.books = [books EXCEPT ![k] = C9_Expected(books[k], b)]

\* an update with a valid title, author and completed was refused for its year
C9_Witness ==
  /\ Responded
  /\ req.method = "PUT"
  /\ req.body = Body(TX, AY, Num(1900), Bool(TRUE))
  /\ res.status = 400
  /\ res.message = MsgYear
====
